---- MODULE Spec2Model ----
(***************************************************************************)
(* Model of display_json_time.py: main() reads a JSON benchmark report,    *)
(* aggregates the runs block by block (mean and sample standard deviation  *)
(* of boot / solution / shutdown time and of the completion rate) and then *)
(* shows three charts.  Every exception is caught by one of the three      *)
(* except clauses at the end of main().                                    *)
(*                                                                         *)
(* Numbers.  The report's floats are modelled by exact rationals           *)
(* <<num, den>> in lowest terms (den > 0); a standard deviation is the     *)
(* exact real sqrt(q), written [sqrt |-> q].                               *)
(***************************************************************************)
EXTENDS Integers, Sequences, FiniteSets, TLC

\* ------------------------------------------------------------------------
\* Bounds of the model
\* ------------------------------------------------------------------------
MaxRuns == 3        \* longest "runs" array of a report
MaxRepeats == 2     \* largest "repeats_per_count" of a report

\* ------------------------------------------------------------------------
\* Exact rational arithmetic (Python float arithmetic of lines 56-68)
\* ------------------------------------------------------------------------
Abs(n) == IF n < 0 THEN -n ELSE n

RECURSIVE GCD(_, _)
GCD(a, b) == IF b = 0 THEN a ELSE GCD(b, a % b)

Rat(n, d) == LET g == GCD(Abs(n), d) IN <<n \div g, d \div g>>

RatInt(n) == <<n, 1>>
RatAdd(p, q) == Rat(p[1] * q[2] + q[1] * p[2], p[2] * q[2])
RatSub(p, q) == Rat(p[1] * q[2] - q[1] * p[2], p[2] * q[2])
RatMul(p, q) == Rat(p[1] * q[1], p[2] * q[2])
RatDivInt(p, n) == Rat(p[1], p[2] * n)
RatLE(p, q) == p[1] * q[2] <= q[1] * p[2]

\* sum(xs), line 58
RECURSIVE Sum(_)
Sum(xs) == IF xs = <<>> THEN RatInt(0) ELSE RatAdd(xs[1], Sum(Tail(xs)))

\* math.sqrt inside statistics.stdev: the exact real sqrt(q)
Sqrt(q) == [sqrt |-> q]

\* the literal 0 of the else branches of lines 65-68
Zero == Sqrt(RatInt(0))

\* ------------------------------------------------------------------------
\* The input: command line, file, JSON document
\* ------------------------------------------------------------------------
RunKeys == {"vm_count", "total_instances", "completed", "timing_summary"}

\* what a run that produced timing data measured
Measurements ==
    { [completed |-> 1,
       timing_summary |-> [boot_time_s |-> [avg |-> RatInt(1)],
                           solution_time_s |-> [avg |-> RatInt(3)],
                           shutdown_time_s |-> [avg |-> RatInt(2)]]],
      [completed |-> 3,
       timing_summary |-> [boot_time_s |-> [avg |-> RatInt(2)],
                           solution_time_s |-> [avg |-> RatInt(7)],
                           shutdown_time_s |-> [avg |-> RatInt(5)]]] }

NoTiming == [boot_time_s |-> [avg |-> RatInt(0)], solution_time_s |-> [avg |-> RatInt(0)],
             shutdown_time_s |-> [avg |-> RatInt(0)]]

\* runs that follow the data model and carry timing_summary
UsableRuns ==
    { [keys |-> RunKeys, vm_count |-> v, total_instances |-> 3,
       completed |-> m.completed, timing_summary |-> m.timing_summary] :
        v \in {2, 16}, m \in Measurements }

\* runs that follow the data model and have no timing_summary (crashed runs)
CrashedRuns ==
    { [keys |-> RunKeys \ {"timing_summary"}, vm_count |-> v, total_instances |-> 3,
       completed |-> 0, timing_summary |-> NoTiming] : v \in {2, 16} }

\* runs that break the data model: total_instances = 0, completed >
\* total_instances, or a required key missing
DefectiveRuns ==
    LET t == (CHOOSE m \in Measurements : m.completed = 1).timing_summary IN
    { [keys |-> RunKeys, vm_count |-> 2, total_instances |-> 0, completed |-> 0,
       timing_summary |-> t],
      [keys |-> RunKeys, vm_count |-> 2, total_instances |-> 3, completed |-> 4,
       timing_summary |-> t],
      [keys |-> RunKeys \ {"vm_count"}, vm_count |-> 0, total_instances |-> 3,
       completed |-> 3, timing_summary |-> t],
      [keys |-> RunKeys \ {"completed"}, vm_count |-> 2, total_instances |-> 3,
       completed |-> 0, timing_summary |-> t],
      [keys |-> RunKeys \ {"total_instances"}, vm_count |-> 2, total_instances |-> 0,
       completed |-> 3, timing_summary |-> t] }

RunResults == UsableRuns \cup CrashedRuns \cup DefectiveRuns

RECURSIVE SeqsUpTo(_, _)
SeqsUpTo(S, n) ==
    IF n = 0 THEN {<<>>}
    ELSE LET shorter == SeqsUpTo(S, n - 1) IN
         shorter \cup {Append(s, x) : s \in {t \in shorter : Len(t) = n - 1}, x \in S}

DocKeys == {"repeats_per_count", "runs"}

NoData == [keys |-> {}, repeats_per_count |-> 0, runs |-> <<>>]

\* JSON documents: the full reports, and documents lacking a top-level key
Documents ==
    { [keys |-> DocKeys, repeats_per_count |-> r, runs |-> rs] :
        r \in 1..MaxRepeats, rs \in SeqsUpTo(RunResults, MaxRuns) }
    \cup
    { [keys |-> DocKeys \ {k}, repeats_per_count |-> IF k = "runs" THEN 1 ELSE 0,
       runs |-> IF k = "runs" THEN <<>> ELSE rs] :
        k \in DocKeys, rs \in SeqsUpTo(UsableRuns, 1) }

\* what the path names: no file, a file that is not JSON, a JSON document
Files ==
    { [exists |-> FALSE, valid |-> FALSE, doc |-> NoData],
      [exists |-> TRUE, valid |-> FALSE, doc |-> NoData] }
    \cup { [exists |-> TRUE, valid |-> TRUE, doc |-> d] : d \in Documents }

VARIABLES
    pc,                  \* position in main()
    argc,                \* len(sys.argv)
    file,                \* what sys.argv[1] names
    data,                \* json.load(file)
    repeats_per_count,
    i, j,                \* loop variables of lines 43 and 50
    temp_avg_boot_time, temp_avg_solution_time, temp_avg_shutdown_time,
    temp_completion_rate,
    avg_boot_time, avg_solution_time, avg_shutdown_time,
    instance_count, completion_rate,
    boot_stddev, solution_stddev, shutdown_stddev, completion_stddev,
    exc,                 \* the exception being propagated, "none" if none
    printed,             \* what main() printed
    shown,               \* the charts shown by plt.show(), in order
    exit_code            \* the process's exit status, -1 while running

temps == <<temp_avg_boot_time, temp_avg_solution_time, temp_avg_shutdown_time,
           temp_completion_rate>>
means == <<avg_boot_time, avg_solution_time, avg_shutdown_time, instance_count,
           completion_rate>>
stddevs == <<boot_stddev, solution_stddev, shutdown_stddev, completion_stddev>>
inputs == <<argc, file>>
outputs == <<printed, shown, exit_code>>
vars == <<pc, argc, file, data, repeats_per_count, i, j, temps, means, stddevs,
          exc, printed, shown, exit_code>>

Init ==
    /\ pc = "start"
    /\ argc \in {1, 2}
    /\ file \in Files
    /\ argc = 1 => file = [exists |-> FALSE, valid |-> FALSE, doc |-> NoData]
    /\ data = NoData
    /\ repeats_per_count = 0
    /\ i = 0 /\ j = 0
    /\ temp_avg_boot_time = <<>> /\ temp_avg_solution_time = <<>>
    /\ temp_avg_shutdown_time = <<>> /\ temp_completion_rate = <<>>
    /\ avg_boot_time = <<>> /\ avg_solution_time = <<>> /\ avg_shutdown_time = <<>>
    /\ instance_count = <<>> /\ completion_rate = <<>>
    /\ boot_stddev = <<>> /\ solution_stddev = <<>> /\ shutdown_stddev = <<>>
    /\ completion_stddev = <<>>
    /\ exc = "none"
    /\ printed = "nothing"
    /\ shown = <<>>
    /\ exit_code = -1

\* ------------------------------------------------------------------------
\* Pieces of main()
\* ------------------------------------------------------------------------
\* faulty variant of Handler: a KeyError is taken for a decoding error
Handler_KeyErrorAsJson(e) ==
    IF e = "FileNotFoundError" THEN "except_file_not_found"
    ELSE IF e \in {"JSONDecodeError", "KeyError"} THEN "except_json_decode"
    ELSE "except_exception"

\* faulty variant of Handler: a general exception is dropped and plotting goes on
Handler_Swallow(e) ==
    IF e = "FileNotFoundError" THEN "except_file_not_found"
    ELSE IF e = "JSONDecodeError" THEN "except_json_decode"
    ELSE "plot_boot"

\* the except clause that catches exception e (lines 115, 118, 121)
Handler(e) ==
    IF e = "FileNotFoundError" THEN "except_file_not_found"
    ELSE IF e = "JSONDecodeError" THEN "except_json_decode"
    ELSE "except_exception"

Raise(e) == pc' = Handler(e) /\ exc' = e

\* faulty variant of RangeContinues: a short trailing block is skipped
RangeContinues_Truncating(idx, n, step) == idx + step <= n

\* range(0, n, step) still has the value idx to yield (line 43)
RangeContinues(idx, n, step) == idx < n

\* faulty variant of RunIndex: the block's offset is forgotten
RunIndex_Inner(a, b) == b

\* the index i+j of lines 52-56
RunIndex(a, b) == a + b

\* faulty variant of LabelIndex: the last run of the block, not the first
LabelIndex_Last(a, b) == a + b - 1

\* the index of the run whose vm_count labels the block (line 61): i
LabelIndex(a, b) == a

\* faulty variant of CompletionRate: the division is left out
CompletionRate_NoDivision(run) == RatMul(RatInt(run.completed), RatInt(100))

\* (completed / total_instances) * 100 of line 56, total_instances # 0
CompletionRate(run) ==
    RatMul(Rat(run.completed, run.total_instances), RatInt(100))

Ok(v) == [ok |-> TRUE, val |-> v]
ZeroDivisionError == [ok |-> FALSE, val |-> RatInt(0)]

\* faulty variant of Mean: divides by repeats_per_count, not by len(xs)
Mean_PerRepeat(xs) ==
    IF Len(xs) = 0 THEN ZeroDivisionError
    ELSE Ok(RatDivInt(Sum(xs), repeats_per_count))

\* faulty variant of Mean: the mean of no values is 0
Mean_SilentZero(xs) ==
    IF Len(xs) = 0 THEN Ok(RatInt(0)) ELSE Ok(RatDivInt(Sum(xs), Len(xs)))

\* sum(xs) / len(xs) of lines 58-60 and 62
Mean(xs) ==
    IF Len(xs) = 0 THEN ZeroDivisionError ELSE Ok(RatDivInt(Sum(xs), Len(xs)))

\* sum of the squared deviations from the mean (statistics._ss)
RECURSIVE SumSquares(_, _)
SumSquares(xs, m) ==
    IF xs = <<>> THEN RatInt(0)
    ELSE RatAdd(RatMul(RatSub(xs[1], m), RatSub(xs[1], m)), SumSquares(Tail(xs), m))

\* statistics.stdev(xs), Len(xs) >= 2
Stdev(xs) ==
    Sqrt(RatDivInt(SumSquares(xs, RatDivInt(Sum(xs), Len(xs))), Len(xs) - 1))

\* faulty variant of StdevOrZero: divisor n instead of n - 1
StdevOrZero_Population(xs) ==
    IF Len(xs) > 1
    THEN Sqrt(RatDivInt(SumSquares(xs, RatDivInt(Sum(xs), Len(xs))), Len(xs)))
    ELSE Zero

\* statistics.stdev(xs) if len(xs) > 1 else 0 (lines 65-68)
StdevOrZero(xs) == IF Len(xs) > 1 THEN Stdev(xs) ELSE Zero

\* str(n) of line 61, n >= 0: the decimal digits
Digit(d) == <<"0", "1", "2", "3", "4", "5", "6", "7", "8", "9">>[d + 1]

RECURSIVE Str(_)
Str(n) == IF n < 10 THEN <<Digit(n)>> ELSE Append(Str(n \div 10), Digit(n % 10))

\* ------------------------------------------------------------------------
\* Actions: the steps of main()
\* ------------------------------------------------------------------------
\* lines 8-13
CheckArgs ==
    /\ pc = "start"
    /\ IF argc < 2
       THEN /\ printed' = "usage"
            /\ exit_code' = 1
            /\ pc' = "exited"
       ELSE /\ pc' = "open"
            /\ UNCHANGED <<printed, exit_code>>
    /\ UNCHANGED <<inputs, data, repeats_per_count, i, j, temps, means, stddevs,
                   exc, shown>>

\* line 18
OpenFile ==
    /\ pc = "open"
    /\ IF file.exists
       THEN pc' = "load" /\ UNCHANGED exc
       ELSE Raise("FileNotFoundError")
    /\ UNCHANGED <<inputs, data, repeats_per_count, i, j, temps, means, stddevs,
                   outputs>>

\* line 20
JsonLoad ==
    /\ pc = "load"
    /\ IF file.valid
       THEN /\ data' = file.doc
            /\ pc' = "read_repeats"
            /\ UNCHANGED exc
       ELSE /\ Raise("JSONDecodeError")
            /\ UNCHANGED data
    /\ UNCHANGED <<inputs, repeats_per_count, i, j, temps, means, stddevs, outputs>>

\* lines 22-40 (the lists are empty already)
ReadRepeats ==
    /\ pc = "read_repeats"
    /\ IF "repeats_per_count" \in data.keys
       THEN /\ repeats_per_count' = data.repeats_per_count
            /\ pc' = "for"
            /\ UNCHANGED exc
       ELSE /\ Raise("KeyError")
            /\ UNCHANGED repeats_per_count
    /\ UNCHANGED <<inputs, data, i, j, temps, means, stddevs, outputs>>

\* line 43, building the range: data["runs"] is read once
EnterLoop ==
    /\ pc = "for"
    /\ IF "runs" \in data.keys
       THEN /\ i' = 0
            /\ pc' = "outer"
            /\ UNCHANGED exc
       ELSE /\ Raise("KeyError")
            /\ UNCHANGED i
    /\ UNCHANGED <<inputs, data, repeats_per_count, j, temps, means, stddevs, outputs>>

\* lines 43-50: the next value of i, the temporaries cleared
OuterLoop ==
    /\ pc = "outer"
    /\ IF RangeContinues(i, Len(data.runs), repeats_per_count)
       THEN /\ temp_avg_boot_time' = <<>>
            /\ temp_avg_solution_time' = <<>>
            /\ temp_avg_shutdown_time' = <<>>
            /\ temp_completion_rate' = <<>>
            /\ j' = 0
            /\ pc' = "inner"
       ELSE /\ pc' = "plot_boot"
            /\ UNCHANGED <<j, temps>>
    /\ UNCHANGED <<inputs, data, repeats_per_count, i, means, stddevs, exc, outputs>>

\* lines 50-56: one iteration of the inner loop
InnerLoop ==
    /\ pc = "inner"
    /\ IF j >= repeats_per_count
       THEN /\ pc' = "fill"
            /\ UNCHANGED <<j, temps, exc>>
       ELSE IF RunIndex(i, j) >= Len(data.runs)
       THEN /\ Raise("IndexError")
            /\ UNCHANGED <<j, temps>>
       ELSE LET run == data.runs[RunIndex(i, j) + 1] IN
            IF "timing_summary" \notin run.keys
            THEN /\ j' = j + 1
                 /\ UNCHANGED <<pc, temps, exc>>
            ELSE /\ temp_avg_boot_time' =
                        Append(temp_avg_boot_time, run.timing_summary.boot_time_s.avg)
                 /\ temp_avg_solution_time' =
                        Append(temp_avg_solution_time, run.timing_summary.solution_time_s.avg)
                 /\ temp_avg_shutdown_time' =
                        Append(temp_avg_shutdown_time, run.timing_summary.shutdown_time_s.avg)
                 /\ IF "completed" \notin run.keys \/ "total_instances" \notin run.keys
                    THEN /\ Raise("KeyError")
                         /\ UNCHANGED <<j, temp_completion_rate>>
                    ELSE IF run.total_instances = 0
                    THEN /\ Raise("ZeroDivisionError")
                         /\ UNCHANGED <<j, temp_completion_rate>>
                    ELSE /\ temp_completion_rate' =
                                Append(temp_completion_rate, CompletionRate(run))
                         /\ j' = j + 1
                         /\ UNCHANGED <<pc, exc>>
    /\ UNCHANGED <<inputs, data, repeats_per_count, i, means, stddevs, outputs>>

\* lines 58-68: the block's means, label and standard deviations are appended;
\* `failed` is the first of lines 58-62 that raises, 0 if none does
FillIn ==
    /\ pc = "fill"
    /\ LET mb == Mean(temp_avg_boot_time)
           ms == Mean(temp_avg_solution_time)
           md == Mean(temp_avg_shutdown_time)
           mc == Mean(temp_completion_rate)
           first == data.runs[LabelIndex(i, j) + 1]
           failed == IF ~mb.ok THEN 58
                     ELSE IF ~ms.ok THEN 59
                     ELSE IF ~md.ok THEN 60
                     ELSE IF "vm_count" \notin first.keys THEN 61
                     ELSE IF ~mc.ok THEN 62
                     ELSE 0
           reached(line) == failed = 0 \/ failed > line
       IN  /\ avg_boot_time' =
                IF reached(58) THEN Append(avg_boot_time, mb.val) ELSE avg_boot_time
           /\ avg_solution_time' =
                IF reached(59) THEN Append(avg_solution_time, ms.val)
                ELSE avg_solution_time
           /\ avg_shutdown_time' =
                IF reached(60) THEN Append(avg_shutdown_time, md.val)
                ELSE avg_shutdown_time
           /\ instance_count' =
                IF reached(61) THEN Append(instance_count, Str(first.vm_count))
                ELSE instance_count
           /\ completion_rate' =
                IF reached(62) THEN Append(completion_rate, mc.val) ELSE completion_rate
           /\ IF failed = 0
              THEN /\ boot_stddev' = Append(boot_stddev, StdevOrZero(temp_avg_boot_time))
                   /\ solution_stddev' =
                        Append(solution_stddev, StdevOrZero(temp_avg_solution_time))
                   /\ shutdown_stddev' =
                        Append(shutdown_stddev, StdevOrZero(temp_avg_shutdown_time))
                   /\ completion_stddev' =
                        Append(completion_stddev, StdevOrZero(temp_completion_rate))
                   /\ i' = i + repeats_per_count
                   /\ pc' = "outer"
                   /\ UNCHANGED exc
              ELSE /\ Raise(IF failed = 61 THEN "KeyError" ELSE "ZeroDivisionError")
                   /\ UNCHANGED <<i, stddevs>>
    /\ UNCHANGED <<inputs, data, repeats_per_count, j, temps, outputs>>

\* one figure: bars of the means with error bars, the completion rate on a twin axis
Chart(metric, ys, errs) ==
    [title |-> metric, repeats |-> repeats_per_count, x |-> instance_count,
     y |-> ys, yerr |-> errs, rate |-> completion_rate, rate_err |-> completion_stddev]

\* lines 71-82
ShowBoot ==
    /\ pc = "plot_boot"
    /\ shown' = Append(shown, Chart("Boot Time", avg_boot_time, boot_stddev))
    /\ pc' = "plot_solution"
    /\ UNCHANGED <<inputs, data, repeats_per_count, i, j, temps, means, stddevs, exc,
                   printed, exit_code>>

\* lines 85-96
ShowSolution ==
    /\ pc = "plot_solution"
    /\ shown' = Append(shown, Chart("Solution Time", avg_solution_time, solution_stddev))
    /\ pc' = "plot_shutdown"
    /\ UNCHANGED <<inputs, data, repeats_per_count, i, j, temps, means, stddevs, exc,
                   printed, exit_code>>

\* lines 100-111
ShowShutdown ==
    /\ pc = "plot_shutdown"
    /\ shown' = Append(shown, Chart("Shutdown Time", avg_shutdown_time, shutdown_stddev))
    /\ pc' = "return"
    /\ UNCHANGED <<inputs, data, repeats_per_count, i, j, temps, means, stddevs, exc,
                   printed, exit_code>>

\* lines 115-116
ExceptFileNotFound ==
    /\ pc = "except_file_not_found"
    /\ printed' = "File not found"
    /\ pc' = "return"
    /\ UNCHANGED <<inputs, data, repeats_per_count, i, j, temps, means, stddevs, exc,
                   shown, exit_code>>

\* lines 118-119
ExceptJSONDecodeError ==
    /\ pc = "except_json_decode"
    /\ printed' = "Error: could not decode json file"
    /\ pc' = "return"
    /\ UNCHANGED <<inputs, data, repeats_per_count, i, j, temps, means, stddevs, exc,
                   shown, exit_code>>

\* lines 121-122
ExceptException ==
    /\ pc = "except_exception"
    /\ printed' = "An error has occured"
    /\ pc' = "return"
    /\ UNCHANGED <<inputs, data, repeats_per_count, i, j, temps, means, stddevs, exc,
                   shown, exit_code>>

\* lines 125-126: main() returns and the interpreter exits with status 0
Return ==
    /\ pc = "return"
    /\ exit_code' = 0
    /\ pc' = "exited"
    /\ UNCHANGED <<inputs, data, repeats_per_count, i, j, temps, means, stddevs, exc,
                   printed, shown>>

Next ==
    \/ CheckArgs
    \/ OpenFile
    \/ JsonLoad
    \/ ReadRepeats
    \/ EnterLoop
    \/ OuterLoop
    \/ InnerLoop
    \/ FillIn
    \/ ShowBoot
    \/ ShowSolution
    \/ ShowShutdown
    \/ ExceptFileNotFound
    \/ ExceptJSONDecodeError
    \/ ExceptException
    \/ Return

Spec == Init /\ [][Next]_vars

\* ------------------------------------------------------------------------
\* The report as the claims speak of it
\* ------------------------------------------------------------------------
Doc == file.doc
Runs == Doc.runs
Repeats == Doc.repeats_per_count

\* main() got a path to a JSON document with both top-level keys
Loaded == argc >= 2 /\ file.valid /\ DocKeys \subseteq Doc.keys

RequiredRunKeys == {"vm_count", "total_instances", "completed"}

\* every run has the required keys and a positive total_instances
WellFormed ==
    \A m \in 1..Len(Runs) :
        RequiredRunKeys \subseteq Runs[m].keys /\ Runs[m].total_instances > 0

Finished == pc \in {"plot_boot", "plot_solution", "plot_shutdown", "return", "exited"}

\* blocks 0 .. NumBlocks-1; the last one is short when Repeats does not divide Len(Runs)
NumBlocks == (Len(Runs) + Repeats - 1) \div Repeats
FullBlocks == Len(Runs) \div Repeats
BlockSize(k) == IF (k + 1) * Repeats <= Len(Runs) THEN Repeats ELSE Len(Runs) - k * Repeats
BlockRuns(k) == SubSeq(Runs, k * Repeats + 1, k * Repeats + BlockSize(k))
HasTiming(run) == "timing_summary" \in run.keys
UsableOf(k) == SelectSeq(BlockRuns(k), HasTiming)
Usable(k) == Len(UsableOf(k))

BootOf(run) == run.timing_summary.boot_time_s.avg
SolutionOf(run) == run.timing_summary.solution_time_s.avg
ShutdownOf(run) == run.timing_summary.shutdown_time_s.avg
RateOf(run) == Rat(100 * run.completed, run.total_instances)

\* the values of one metric over the usable runs u of a block
BootValues(u) == [m \in 1..Len(u) |-> BootOf(u[m])]
SolutionValues(u) == [m \in 1..Len(u) |-> SolutionOf(u[m])]
ShutdownValues(u) == [m \in 1..Len(u) |-> ShutdownOf(u[m])]
RateValues(u) == [m \in 1..Len(u) |-> RateOf(u[m])]

\* m is the arithmetic mean of the non-empty xs: m * Len(xs) = sum of xs
IsMeanOf(m, xs) == RatMul(m, RatInt(Len(xs))) = Sum(xs)

\* sample variance, (n * sum x^2 - (sum x)^2) / (n * (n - 1)), n >= 2
Squares(xs) == [m \in 1..Len(xs) |-> RatMul(xs[m], xs[m])]
SampleVariance(xs) ==
    RatDivInt(RatSub(RatMul(RatInt(Len(xs)), Sum(Squares(xs))),
                     RatMul(Sum(xs), Sum(xs))),
              Len(xs) * (Len(xs) - 1))

\* a group summary is emitted once line 68 has appended its last field
Emitted == Len(completion_stddev)
Lists == <<avg_boot_time, avg_solution_time, avg_shutdown_time, instance_count,
           completion_rate, boot_stddev, solution_stddev, shutdown_stddev,
           completion_stddev>>

\* decimal digits back to the number
DigitValue(c) == CHOOSE d \in 0..9 : Digit(d) = c
RECURSIVE Parse(_)
Parse(ds) ==
    IF Len(ds) = 1 THEN DigitValue(ds[1])
    ELSE 10 * Parse(SubSeq(ds, 1, Len(ds) - 1)) + DigitValue(ds[Len(ds)])

\* the summary of block k, from the runs of block k alone
ExpectedStddev(xs) == IF Len(xs) >= 2 THEN Sqrt(SampleVariance(xs)) ELSE Zero
SummaryMatches(k) ==
    LET u == UsableOf(k) IN
    /\ IsMeanOf(avg_boot_time[k + 1], BootValues(u))
    /\ IsMeanOf(avg_solution_time[k + 1], SolutionValues(u))
    /\ IsMeanOf(avg_shutdown_time[k + 1], ShutdownValues(u))
    /\ IsMeanOf(completion_rate[k + 1], RateValues(u))
    /\ Parse(instance_count[k + 1]) = Runs[k * Repeats + 1].vm_count
    /\ boot_stddev[k + 1] = ExpectedStddev(BootValues(u))
    /\ solution_stddev[k + 1] = ExpectedStddev(SolutionValues(u))
    /\ shutdown_stddev[k + 1] = ExpectedStddev(ShutdownValues(u))
    /\ completion_stddev[k + 1] = ExpectedStddev(RateValues(u))

\* ------------------------------------------------------------------------
\* Claims
\* ------------------------------------------------------------------------
\* C1: for a well-formed report whose length is a multiple of
\* repeats_per_count and whose every block has a usable run, the loop ends
\* with exactly Len(runs) / repeats_per_count summaries, and the k-th one is
\* the summary of runs[k*repeats .. (k+1)*repeats - 1], in block order.
C1_OneSummaryPerBlockInOrder ==
    (/\ Loaded /\ Finished /\ WellFormed
     /\ Len(Runs) % Repeats = 0
     /\ \A k \in 0..(NumBlocks - 1) : Usable(k) >= 1)
    => /\ \A n \in 1..Len(Lists) : Len(Lists[n]) = Len(Runs) \div Repeats
       /\ \A k \in 0..(Len(Runs) \div Repeats - 1) : SummaryMatches(k)

C1_Witness ==
    /\ Loaded /\ pc = "exited" /\ WellFormed
    /\ Len(Runs) % Repeats = 0
    /\ Emitted >= 2
    /\ avg_boot_time[1] # avg_boot_time[2]
    /\ instance_count[1] # instance_count[2]

\* C2: each mean of an emitted group is the sum over the block's runs that
\* carry timing_summary divided by the number of those runs; a run without
\* timing_summary contributes nothing, and with exactly one usable run each
\* mean is that run's value.
C2_MeansOverUsableRunsOnly ==
    Loaded =>
        \A k \in 0..(Emitted - 1) :
            LET u == UsableOf(k) IN
            /\ Len(u) >= 1
            /\ IsMeanOf(avg_boot_time[k + 1], BootValues(u))
            /\ IsMeanOf(avg_solution_time[k + 1], SolutionValues(u))
            /\ IsMeanOf(avg_shutdown_time[k + 1], ShutdownValues(u))
            /\ IsMeanOf(completion_rate[k + 1], RateValues(u))
            /\ Len(u) = 1 =>
                  /\ avg_boot_time[k + 1] = BootOf(u[1])
                  /\ avg_solution_time[k + 1] = SolutionOf(u[1])
                  /\ avg_shutdown_time[k + 1] = ShutdownOf(u[1])
                  /\ completion_rate[k + 1] = RateOf(u[1])

C2_Witness ==
    /\ Loaded /\ Emitted >= 1
    /\ Usable(0) = 1
    /\ BlockSize(0) >= 2
    /\ avg_boot_time[1] = BootOf(UsableOf(0)[1])

\* C3: a block without any run carrying timing_summary never gets a summary
\* (no list receives an entry for it), the run ends in the catch-all error
\* path without a chart, and the error is the division by zero of the mean
\* when nothing else is wrong with the report.
C3_EmptyBlockIsAnError ==
    Loaded =>
        \A k \in 0..(NumBlocks - 1) :
            Usable(k) = 0 =>
                /\ \A n \in 1..Len(Lists) : Len(Lists[n]) <= k
                /\ shown = <<>>
                /\ pc = "exited" =>
                      /\ printed = "An error has occured"
                      /\ (WellFormed /\ k < FullBlocks) => exc = "ZeroDivisionError"

C3_Witness ==
    /\ Loaded /\ pc = "exited" /\ WellFormed
    /\ Len(Runs) % Repeats = 0
    /\ NumBlocks >= 2
    /\ Usable(0) >= 1
    /\ Usable(1) = 0
    /\ exc = "ZeroDivisionError"
    /\ printed = "An error has occured"

\* C4: every failure of loading or aggregation is caught and the process
\* then ends with a non-zero exit code.
C4_FailureExitsNonZero ==
    (pc = "exited" /\ exc # "none") => exit_code # 0

\* C5: a chart is shown only after the loop has finished every block without
\* an exception; once anything has failed no chart is shown, also when
\* earlier blocks were aggregated successfully.
C5_NoPartialOutput ==
    /\ exc # "none" => shown = <<>>
    /\ shown # <<>> =>
          /\ Loaded
          /\ pc \in {"plot_solution", "plot_shutdown", "return", "exited"}
          /\ Len(Runs) % Repeats = 0
          /\ \A n \in 1..Len(Lists) : Len(Lists[n]) = NumBlocks
          /\ printed = "nothing"

C5_Witness ==
    /\ pc = "exited"
    /\ exc # "none"
    /\ Emitted >= 1
    /\ shown = <<>>

\* C6 (as stated): when Len(runs) is not a multiple of repeats_per_count the
\* short trailing block is dropped silently, floor(Len(runs) / repeats)
\* summaries are emitted and the charts are shown.
C6_TruncatesSilently ==
    (/\ Loaded /\ pc = "exited" /\ WellFormed
     /\ Len(Runs) % Repeats # 0
     /\ \A k \in 0..(FullBlocks - 1) : Usable(k) >= 1)
    => /\ exc = "none"
       /\ Emitted = FullBlocks
       /\ Len(shown) = 3

\* C6 (amended): when Len(runs) is not a multiple of repeats_per_count the
\* run ends in the catch-all error path and no chart is shown; at most
\* floor(Len(runs) / repeats) summaries were accumulated, and when the full
\* blocks are sound the exception is the IndexError of the short block.
C6_ShortBlockRaises ==
    (Loaded /\ pc = "exited" /\ Len(Runs) % Repeats # 0)
    => /\ exc # "none"
       /\ printed = "An error has occured"
       /\ shown = <<>>
       /\ Emitted <= FullBlocks
       /\ (WellFormed /\ \A k \in 0..(FullBlocks - 1) : Usable(k) >= 1)
              => exc = "IndexError" /\ Emitted = FullBlocks

C6_Witness ==
    /\ Loaded /\ pc = "exited" /\ WellFormed
    /\ Len(Runs) % Repeats # 0
    /\ Emitted >= 1
    /\ exc = "IndexError"

\* C7 (as stated): every block with fewer than 2 usable runs, a block that
\* is empty after filtering included, gets a standard deviation of exactly 0
\* recorded for each metric.
C7_ZeroAlsoForEmptyBlock ==
    (Loaded /\ pc = "exited" /\ WellFormed /\ Len(Runs) % Repeats = 0)
    => \A k \in 0..(NumBlocks - 1) :
          Usable(k) < 2 =>
              /\ Emitted > k
              /\ boot_stddev[k + 1] = Zero
              /\ solution_stddev[k + 1] = Zero
              /\ shutdown_stddev[k + 1] = Zero
              /\ completion_stddev[k + 1] = Zero

\* C7 (amended): the standard deviation recorded for a block is exactly 0 when
\* the block has exactly one usable run and the sample standard deviation
\* (divisor n - 1) when it has at least 2; a block that is empty after
\* filtering gets no standard deviation recorded at all.
C7_ZeroForOneUsableRun ==
    Loaded =>
        /\ \A k \in 0..(Emitted - 1) :
              LET u == UsableOf(k) IN
              /\ Len(u) >= 1
              /\ Len(u) = 1 =>
                    /\ boot_stddev[k + 1] = Zero
                    /\ solution_stddev[k + 1] = Zero
                    /\ shutdown_stddev[k + 1] = Zero
                    /\ completion_stddev[k + 1] = Zero
              /\ Len(u) >= 2 =>
                    /\ boot_stddev[k + 1] = Sqrt(SampleVariance(BootValues(u)))
                    /\ solution_stddev[k + 1] = Sqrt(SampleVariance(SolutionValues(u)))
                    /\ shutdown_stddev[k + 1] = Sqrt(SampleVariance(ShutdownValues(u)))
                    /\ completion_stddev[k + 1] = Sqrt(SampleVariance(RateValues(u)))
        /\ \A k \in 0..(NumBlocks - 1) :
              Usable(k) = 0 =>
                  /\ Len(boot_stddev) <= k /\ Len(solution_stddev) <= k
                  /\ Len(shutdown_stddev) <= k /\ Len(completion_stddev) <= k

C7_Witness ==
    /\ Loaded /\ Emitted >= 1
    /\ BlockSize(0) >= 2
    /\ Usable(0) = 1
    /\ boot_stddev[1] = Zero /\ completion_stddev[1] = Zero

\* some key the data model requires is missing from the document
MissingRequiredKey ==
    \/ ~(DocKeys \subseteq Doc.keys)
    \/ \E m \in 1..Len(Runs) : ~(RequiredRunKeys \subseteq Runs[m].keys)

\* some key that main() reads is missing: a top-level key, the vm_count of a
\* block's first run, completed or total_instances of a usable run
MissingKeyThatIsRead ==
    \/ ~(DocKeys \subseteq Doc.keys)
    \/ \E m \in 1..Len(Runs) :
          \/ HasTiming(Runs[m])
             /\ ~({"completed", "total_instances"} \subseteq Runs[m].keys)
          \/ (m - 1) % Repeats = 0 /\ "vm_count" \notin Runs[m].keys

\* C8 (as stated): a valid JSON document lacking a required key is reported
\* through the MalformedJSON path, like a document that is not valid JSON.
C8_MissingKeyIsMalformedJSON ==
    (argc >= 2 /\ file.valid /\ pc = "exited" /\ MissingRequiredKey)
    => printed = "Error: could not decode json file"

\* C8 (amended): a valid JSON document never takes the MalformedJSON path;
\* when a key that main() reads is missing (a top-level key, the vm_count of a
\* block's first run, completed or total_instances of a run carrying
\* timing_summary) the run ends in the catch-all path.
C8_MissingKeyIsCatchAll ==
    (argc >= 2 /\ file.valid) =>
        /\ pc # "except_json_decode"
        /\ printed # "Error: could not decode json file"
        /\ (pc = "exited" /\ MissingKeyThatIsRead) =>
              /\ printed = "An error has occured"
              /\ exc \notin {"none", "JSONDecodeError", "FileNotFoundError"}
        /\ (pc = "exited" /\ ~(DocKeys \subseteq Doc.keys)) => exc = "KeyError"

C8_Witness ==
    /\ Loaded /\ pc = "exited"
    /\ Len(Runs) % Repeats = 0
    /\ \E m \in 1..Len(Runs) : ~(RequiredRunKeys \subseteq Runs[m].keys)
    /\ exc = "KeyError"
    /\ printed = "An error has occured"

\* C9: the completion rate of a usable run with total_instances > 0 and
\* 0 <= completed <= total_instances lies in [0, 100], and so does the
\* completion-rate mean of every emitted group whose usable runs are such.
InPercentRange(q) == RatLE(RatInt(0), q) /\ RatLE(q, RatInt(100))
RateDefined(run) ==
    /\ {"completed", "total_instances"} \subseteq run.keys
    /\ run.total_instances > 0
    /\ 0 <= run.completed /\ run.completed <= run.total_instances

C9_CompletionRateInRange ==
    Loaded =>
        /\ \A k \in 0..(Emitted - 1) :
              LET u == UsableOf(k) IN
              (\A m \in 1..Len(u) : RateDefined(u[m]))
                  => InPercentRange(completion_rate[k + 1])
        /\ pc = "inner" =>
              LET u == UsableOf(i \div Repeats) IN
              \A m \in 1..Len(temp_completion_rate) :
                  RateDefined(u[m]) => InPercentRange(temp_completion_rate[m])

C9_Witness ==
    /\ Loaded /\ Emitted >= 1
    /\ Usable(0) >= 2
    /\ \A m \in 1..Usable(0) : RateDefined(UsableOf(0)[m])
    /\ completion_rate[1] = <<200, 3>>

\* C10: the instance_count of each group is the vm_count of the first run of
\* its block, runs[k * repeats], as a decimal string, also when that run has
\* no timing_summary and was left out of the four metrics.
C10_LabelFromFirstRunOfBlock ==
    Loaded =>
        \A k \in 0..(Len(instance_count) - 1) :
            /\ instance_count[k + 1] = Str(Runs[k * Repeats + 1].vm_count)
            /\ Parse(instance_count[k + 1]) = Runs[k * Repeats + 1].vm_count

C10_Witness ==
    /\ Loaded /\ Emitted >= 1
    /\ ~HasTiming(Runs[1])
    /\ Usable(0) >= 1
    /\ UsableOf(0)[1].vm_count # Runs[1].vm_count
    /\ instance_count[1] = <<"1", "6">>

====
